---- MODULE Spec2Model ----
(***************************************************************************)
(* A model of PyPRSVT's ingestion of SV-COMP result logs                   *)
(* (PyPRSVT/preprocessing/svcomp.py) and of the Gram matrix cache of       *)
(* scripts/model_induction.py.                                             *)
(*                                                                         *)
(* Python strings are sequences of one-character strings, so that regular  *)
(* expression matching, formatting and parsing are computed on the text.   *)
(***************************************************************************)
EXTENDS Integers, Sequences, FiniteSets, TLC

VARIABLES
    prp_files,      \* property files on disk: path -> content
    xml_in,         \* the result log handed to svcomp_xml_to_dataframe
    parse_out,      \* what svcomp_xml_to_dataframe returned or raised
    vtask_path,     \* the task path handed to an extractor
    expected_out,   \* what _extract_expected_status returned or raised
    pt_out,         \* what _extract_property_type returned or raised
    results_dir,    \* the directory of raw results: file name -> log
    category,       \* the category handed to read_category
    listing,        \* the order in which os.listdir returned the files
    cat_out,        \* what read_category returned or raised
    graph_files,    \* the graph representation files that exist on disk
    dataset,        \* the graph_representation column of the data set
    gram_dir,       \* the artifacts in the gram directory: path -> matrix
    manifest,       \* all.txt in the gram directory
    run,            \* the last run of main: its mode, arguments and outcome
    kernel_calls    \* the kernel invocations of the last run, in order

extractVars == <<vtask_path, expected_out, pt_out>>
parseVars == <<xml_in, parse_out>>
catVars == <<results_dir, category, listing, cat_out>>
gramVars == <<graph_files, dataset, gram_dir, manifest, run, kernel_calls>>
vars == <<prp_files, extractVars, parseVars, catVars, gramVars>>

(***************************************************************************)
(* Bounds of the model.                                                    *)
(***************************************************************************)
\* status strings are concatenations of at most this many fragments
MaxStatusFrags == 3
\* task paths are concatenations of at most this many fragments
MaxPathFrags == 4
\* property file contents are concatenations of at most this many fragments
MaxPrpFrags == 3
\* a directory of raw results holds at most this many files
MaxFiles == 2
\* the data set lists at most this many graphs
MaxGraphs == 2

(***************************************************************************)
(* Characters and strings.                                                 *)
(***************************************************************************)
Lower == {"a", "b", "c", "d", "e", "f", "g", "h", "i", "j", "k", "l", "m",
          "n", "o", "p", "q", "r", "s", "t", "u", "v", "w", "x", "y", "z"}
Upper == {"A", "B", "C", "D", "E", "F", "G", "H", "I", "J", "K", "L", "M",
          "N", "O", "P", "Q", "R", "S", "T", "U", "V", "W", "X", "Y", "Z"}
Digit == {"0", "1", "2", "3", "4", "5", "6", "7", "8", "9"}
\* \w and \s of Python's re, on ASCII text
Word == Lower \cup Upper \cup Digit \cup {"_"}
Space == {" ", "\n", "\t"}

SetMax(S) == CHOOSE m \in S : \A x \in S : x <= m

\* the element of a one-element set; The({e(x) : x \in {v}}) is e of the
\* value of v, computed once
The(S) == CHOOSE x \in S : TRUE

RECURSIVE Flatten(_)
Flatten(ss) == IF ss = <<>> THEN <<>> ELSE Head(ss) \o Flatten(Tail(ss))

\* the texts made of at most n fragments of F
Texts(F, n) == {Flatten(ss) : ss \in UNION {[1..k -> F] : k \in 0..n}}

\* outcomes of a call: a returned value or a raised exception
Ok(v) == [kind |-> "ok", value |-> v]
Raise(e, m) == [kind |-> "raise", exc |-> e, msg |-> m]
NotCalled == [kind |-> "none"]

(***************************************************************************)
(* Python's re on the patterns the program uses: a pattern is a sequence   *)
(* of elements, each a character class with a quantifier ("1", "+", "*").  *)
(* Ends computes the set of positions at which a match of the pattern      *)
(* started at one of the positions P can end.                              *)
(***************************************************************************)
Lit(s) == [i \in 1..Len(s) |-> [c |-> {s[i]}, q |-> "1"]]
One(cls) == <<[c |-> cls, q |-> "1"]>>
Plus(cls) == <<[c |-> cls, q |-> "+"]>>
Star(cls) == <<[c |-> cls, q |-> "*"]>>

Step(e, s, P) ==
    IF e.q = "1"
    THEN {p + 1 : p \in {x \in P : x <= Len(s) /\ s[x] \in e.c}}
    ELSE {p2 \in 1..(Len(s) + 1) :
            \E p \in P : /\ IF e.q = "+" THEN p < p2 ELSE p <= p2
                         /\ \A i \in p..(p2 - 1) : s[i] \in e.c}

RECURSIVE Ends(_, _, _, _)
Ends(pat, k, s, P) ==
    IF k > Len(pat) \/ P = {} THEN P ELSE Ends(pat, k + 1, s, Step(pat[k], s, P))

\* re.match anchors the pattern at the start of s, re.search at any position
re_match(pat, s) == Ends(pat, 1, s, {1}) # {}
re_search(pat, s) == Ends(pat, 1, s, 1..(Len(s) + 1)) # {}
\* the pattern matches all of s
fullmatch(pat, s) == (Len(s) + 1) \in Ends(pat, 1, s, {1})

(***************************************************************************)
(* os.path                                                                 *)
(***************************************************************************)
rfind(s, ch) == LET I == {i \in 1..Len(s) : s[i] = ch} IN IF I = {} THEN 0 ELSE SetMax(I)

basename(p) == SubSeq(p, rfind(p, "/") + 1, Len(p))

RECURSIVE rstrip(_, _)
rstrip(s, ch) == IF s # <<>> /\ s[Len(s)] = ch THEN rstrip(SubSeq(s, 1, Len(s) - 1), ch) ELSE s

dirname(p) ==
    LET head == SubSeq(p, 1, rfind(p, "/"))
    IN  IF head # <<>> /\ \E i \in 1..Len(head) : head[i] # "/" THEN rstrip(head, "/") ELSE head

join(a, b) ==
    IF b # <<>> /\ b[1] = "/" THEN b
    ELSE IF a = <<>> \/ a[Len(a)] = "/" THEN a \o b
    ELSE a \o <<"/">> \o b

\* os.path.splitext: <<root, ext>>; leading dots of the file name start no extension
splitext(p) ==
    LET sepIndex == rfind(p, "/")
        dotIndex == rfind(p, ".")
    IN  IF dotIndex > sepIndex /\ \E i \in (sepIndex + 1)..(dotIndex - 1) : p[i] # "."
        THEN <<SubSeq(p, 1, dotIndex - 1), SubSeq(p, dotIndex, Len(p))>>
        ELSE <<p, <<>>>>

isfile(fs, p) == p \in DOMAIN fs

(***************************************************************************)
(* svcomp.py: Status, PropertyType and the exceptions                      *)
(***************************************************************************)
Status == [true |-> "Status.true", false |-> "Status.false", unknown |-> "Status.unknown"]
PropertyType == [unreachability |-> "PropertyType.unreachability",
                 memory_safety |-> "PropertyType.memory_safety",
                 termination |-> "PropertyType.termination"]
MissingPropertyTypeException == "MissingPropertyTypeException"
MissingExpectedStatusException == "MissingExpectedStatusException"

(***************************************************************************)
(* svcomp.py: _match_status_str                                            *)
(***************************************************************************)
_match_status_str_false_first(status_str) ==
    IF re_search(Lit(<<"f", "a", "l", "s", "e">>), status_str) THEN Status.false
    ELSE IF re_search(Lit(<<"t", "r", "u", "e">>), status_str) THEN Status.true
    ELSE Status.unknown

_match_status_str(status_str) ==
    IF re_search(Lit(<<"t", "r", "u", "e">>), status_str) THEN Status.true
    ELSE IF re_search(Lit(<<"f", "a", "l", "s", "e">>), status_str) THEN Status.false
    ELSE Status.unknown

(***************************************************************************)
(* svcomp.py: _extract_expected_status                                     *)
(*   [-a-zA-Z0-9_\.]+_(true|false)-([-a-zA-Z0-9_]+)\.(i|c)                 *)
(* The first repetition is greedy, so the match found is the one with the  *)
(* longest prefix after which the rest of the pattern matches; group(1) is *)
(* the token that follows that prefix.                                     *)
(***************************************************************************)
ExpectedPrefix == Plus(Word \cup {"-", "."}) \o Lit(<<"_">>)
ExpectedRest(tok) == Lit(tok) \o Lit(<<"-">>) \o Plus(Word \cup {"-"}) \o Lit(<<".">>) \o One({"i", "c"})
ExpectedTokens == {<<"t", "r", "u", "e">>, <<"f", "a", "l", "s", "e">>}

\* the positions after the prefix from which the rest matches with token tok
ExpectedAt(b, tok) ==
    {p \in Ends(ExpectedPrefix, 1, b, {1}) : Ends(ExpectedRest(tok), 1, b, {p}) # {}}

_extract_expected_status_none(path) ==
    LET b == basename(path)
        at == UNION {ExpectedAt(b, tok) : tok \in ExpectedTokens}
    IN  IF at # {}
        THEN Ok(_match_status_str(CHOOSE tok \in ExpectedTokens : SetMax(at) \in ExpectedAt(b, tok)))
        ELSE Ok("None")

_extract_expected_status(path) ==
    LET b == basename(path)
        at == UNION {ExpectedAt(b, tok) : tok \in ExpectedTokens}
    IN  IF at # {}
        THEN Ok(_match_status_str(CHOOSE tok \in ExpectedTokens : SetMax(at) \in ExpectedAt(b, tok)))
        ELSE Raise(MissingExpectedStatusException,
                   "Cannot extract expected status from filename / regex failed (wrong naming?)")

(***************************************************************************)
(* svcomp.py: _extract_property_type                                       *)
(***************************************************************************)
PrpArgs == Plus(Word \cup Space \cup {"(", ")"})
PrpHead == Lit(<<"C", "H", "E", "C", "K", "(">>) \o PrpArgs \o Lit(<<",">>) \o Star(Space) \o Lit(<<"L", "T", "L", "(">>) \o Star(Space)
PrpTail == Lit(<<")">>) \o Star(Space) \o Lit(<<")">>)

unreachability_pattern ==
    PrpHead \o Lit(<<"G">>) \o Star(Space) \o Lit(<<"!">>) \o Star(Space) \o Lit(<<"c", "a", "l", "l", "(">>)
            \o PrpArgs \o Lit(<<")">>) \o Star(Space) \o PrpTail
memory_safety_pattern ==
    PrpHead \o Lit(<<"G">>) \o Star(Space) \o Lit(<<"v", "a", "l", "i", "d", "-">>) \o Plus(Word) \o PrpTail
termination_pattern ==
    PrpHead \o Lit(<<"F">>) \o Star(Space) \o Lit(<<"e", "n", "d">>) \o Star(Space) \o PrpTail

MsgMissingPrp == "Missing ALL.prp or {filename}.prp"
MsgNoPropertyType == "Cannot determine property type from prp file"

\* the property file the extractor reads: <stem>.prp, else the sibling ALL.prp
prp_path(fs, path) ==
    LET prp == splitext(path)[1] \o <<".", "p", "r", "p">>
    IN  IF isfile(fs, prp) THEN prp ELSE join(dirname(path), <<"A", "L", "L", ".", "p", "r", "p">>)

classify(prp_file_content) ==
    IF re_search(unreachability_pattern, prp_file_content) THEN Ok(PropertyType.unreachability)
    ELSE IF re_search(memory_safety_pattern, prp_file_content) THEN Ok(PropertyType.memory_safety)
    ELSE IF re_search(termination_pattern, prp_file_content) THEN Ok(PropertyType.termination)
    ELSE Raise(MissingPropertyTypeException, MsgNoPropertyType)

_extract_property_type_no_fallback(fs, path) ==
    LET prp == splitext(path)[1] \o <<".", "p", "r", "p">>
    IN  IF ~isfile(fs, prp) THEN Raise(MissingPropertyTypeException, MsgMissingPrp)
        ELSE classify(fs[prp])

_extract_property_type(fs, path) ==
    LET prp == prp_path(fs, path)
    IN  IF ~isfile(fs, prp) THEN Raise(MissingPropertyTypeException, MsgMissingPrp)
        ELSE classify(fs[prp])

(***************************************************************************)
(* svcomp.py: _columns_to_dict and svcomp_xml_to_dataframe                 *)
(***************************************************************************)
\* a later column of the same title replaces an earlier one
_columns_to_dict(columns) ==
    LET ret == [t \in {columns[i].title : i \in DOMAIN columns} |->
                  columns[SetMax({i \in DOMAIN columns : columns[i].title = t})].value]
    IN  IF DOMAIN ret = {} THEN Raise("AssertionError", "Could not read columns from sourcefile")
        ELSE Ok(ret)

RECURSIVE DigitsValue(_)
DigitsValue(s) ==
    IF s = <<>> THEN 0
    ELSE 10 * DigitsValue(SubSeq(s, 1, Len(s) - 1))
         + (CHOOSE d \in 0..9 : ToString(d) = s[Len(s)])

\* int(s) on text over digits and letters: a non-empty run of digits
int(s) ==
    IF fullmatch(Plus(Digit), s)
    THEN Ok(DigitsValue(s))
    ELSE Raise("ValueError", "invalid literal for int()")

\* float(s) on text over digits, "." and letters: digits with an optional
\* fraction, or a fraction alone; the value is kept as its integer part and
\* its fraction digits without trailing zeros
FloatForms == {Plus(Digit), Plus(Digit) \o Lit(<<".">>) \o Star(Digit), Lit(<<".">>) \o Plus(Digit)}
float(s) ==
    IF \E pat \in FloatForms : fullmatch(pat, s)
    THEN LET dot == rfind(s, ".")
             ip == IF dot = 0 THEN s ELSE SubSeq(s, 1, dot - 1)
             fp == IF dot = 0 THEN <<>> ELSE SubSeq(s, dot + 1, Len(s))
         IN  Ok([int |-> DigitsValue(ip), frac |-> rstrip(fp, "0")])
    ELSE Raise("ValueError", "could not convert string to float")

\* s[:-1]
ButLast(s) == SubSeq(s, 1, Len(s) - 1)

\* lines 62-71: the row of one sourcefile element; the list is built left to
\* right, so the first failing field decides the exception
row_of(fs, source_file) ==
    IF source_file.column = <<>> THEN Raise("AttributeError", "no such child: column") ELSE
    LET d == _columns_to_dict(source_file.column) IN
    IF d.kind = "raise" THEN d ELSE
    LET r == d.value IN
    IF "status" \notin DOMAIN r THEN Raise("KeyError", "status") ELSE
    IF "cputime" \notin DOMAIN r THEN Raise("KeyError", "cputime") ELSE
    LET cputime == float(ButLast(r["cputime"])) IN
    IF cputime.kind = "raise" THEN cputime ELSE
    IF "walltime" \notin DOMAIN r THEN Raise("KeyError", "walltime") ELSE
    LET walltime == float(ButLast(r["walltime"])) IN
    IF walltime.kind = "raise" THEN walltime ELSE
    IF "memUsage" \notin DOMAIN r THEN Raise("KeyError", "memUsage") ELSE
    LET mem_usage == int(r["memUsage"]) IN
    IF mem_usage.kind = "raise" THEN mem_usage ELSE
    The({
    IF expected_status.kind = "raise" THEN expected_status ELSE
    The({
    IF property_type.kind = "raise" THEN property_type ELSE
    Ok([options |-> IF "options" \in DOMAIN source_file.attrib
                    THEN source_file.attrib.options ELSE <<>>,
        status |-> _match_status_str(r["status"]),
        status_msg |-> r["status"],
        cputime |-> cputime.value,
        walltime |-> walltime.value,
        mem_usage |-> mem_usage.value,
        expected_status |-> expected_status.value,
        property_type |-> property_type.value])
    : property_type \in {_extract_property_type(fs, source_file.attrib.name)}})
    : expected_status \in {_extract_expected_status(source_file.attrib.name)}})

\* a data frame: the index in order of first insertion, and the row of each label
EmptyFrame == [index |-> <<>>, row |-> <<>>]
SetRow(df, label, row) ==
    [index |-> IF label \in DOMAIN df.row THEN df.index ELSE Append(df.index, label),
     row |-> [l \in DOMAIN df.row \cup {label} |-> IF l = label THEN row ELSE df.row[l]]]

\* lines 60-71: the loop over root.sourcefile, from element k on
RECURSIVE sourcefile_loop_skipping(_, _, _, _)
sourcefile_loop_skipping(fs, sourcefiles, k, df) ==
    IF k > Len(sourcefiles) THEN Ok(df)
    ELSE The({IF r.kind = "raise" THEN sourcefile_loop_skipping(fs, sourcefiles, k + 1, df)
              ELSE The({sourcefile_loop_skipping(fs, sourcefiles, k + 1, df2) :
                        df2 \in {SetRow(df, sourcefiles[k].attrib.name, r.value)}}) :
              r \in {row_of(fs, sourcefiles[k])}})

RECURSIVE sourcefile_loop(_, _, _, _)
sourcefile_loop(fs, sourcefiles, k, df) ==
    IF k > Len(sourcefiles) THEN Ok(df)
    ELSE The({IF r.kind = "raise" THEN r
              ELSE The({sourcefile_loop(fs, sourcefiles, k + 1, df2) :
                        df2 \in {SetRow(df, sourcefiles[k].attrib.name, r.value)}}) :
              r \in {row_of(fs, sourcefiles[k])}})

svcomp_xml_to_dataframe(fs, root) ==
    The({IF r.kind = "raise" THEN r
         ELSE [kind |-> "ok", tool |-> root.attrib.benchmarkname, df |-> r.value] :
         r \in {sourcefile_loop(fs, root.sourcefile, 1, EmptyFrame)}})

(***************************************************************************)
(* svcomp.py: read_category                                                *)
(*   \w+\.[0-9-_]+\.(witnesscheck\.[0-9-_]+\.)?results\.sv-comp15\.{0}\.xml *)
(* The category is put into the pattern as it is; the categories of the    *)
(* model are made of letters and "-", which stand for themselves there.    *)
(***************************************************************************)
Stamp == Plus(Digit \cup {"-", "_"})
results_pattern(cat, witnesscheck) ==
    Plus(Word) \o Lit(<<".">>) \o Stamp \o Lit(<<".">>)
        \o (IF witnesscheck THEN Lit(<<"w", "i", "t", "n", "e", "s", "s", "c", "h", "e", "c", "k", ".">>) \o Stamp \o Lit(<<".">>) ELSE <<>>)
        \o Lit(<<"r", "e", "s", "u", "l", "t", "s", ".", "s", "v", "-", "c", "o", "m", "p", "1", "5", ".">>) \o Lit(cat) \o Lit(<<".", "x", "m", "l">>)

pattern_match(cat, file) ==
    re_match(results_pattern(cat, TRUE), file) \/ re_match(results_pattern(cat, FALSE), file)

\* lines 41-44: the loop over os.listdir, from file k of the listing on
RECURSIVE listdir_loop(_, _, _, _, _, _)
listdir_loop(fs, dir, cat, files, k, category_results) ==
    IF k > Len(files) THEN Ok(category_results)
    ELSE IF pattern_match(cat, files[k])
    THEN The({IF r.kind = "raise" THEN r
              ELSE The({listdir_loop(fs, dir, cat, files, k + 1, results2) :
                        results2 \in {Append(category_results, <<r.tool, r.df>>)}}) :
              r \in {svcomp_xml_to_dataframe(fs, dir[files[k]])}})
    ELSE listdir_loop(fs, dir, cat, files, k + 1, category_results)

\* dict(pairs): a later pair of the same key replaces an earlier one
dict(pairs) ==
    [key \in {pairs[i][1] : i \in DOMAIN pairs} |->
        pairs[SetMax({i \in DOMAIN pairs : pairs[i][1] = key})][2]]

\* pd.concat(frames, axis=1): one column group per key, aligned on the union
\* of the indexes (an outer join); a label a frame lacks gets NaN there.
\* The order of rows and of column groups is not modelled.
NaN == [nan |-> TRUE]
pd_concat(frames) ==
    IF DOMAIN frames = {} THEN Raise("ValueError", "No objects to concatenate")
    ELSE LET index == UNION {DOMAIN frames[key].row : key \in DOMAIN frames}
         IN  Ok([index |-> index,
                 column |-> [key \in DOMAIN frames |->
                               [l \in index |-> IF l \in DOMAIN frames[key].row
                                                THEN frames[key].row[l] ELSE NaN]]])

read_category(fs, dir, files, cat) ==
    The({IF r.kind = "raise" THEN r
         ELSE The({pd_concat(frames) : frames \in {dict(r.value)}}) :
         r \in {listdir_loop(fs, dir, cat, files, 1, <<>>)}})

(***************************************************************************)
(* model_induction.py: dump_gram                                           *)
(***************************************************************************)
\* '{}'.format(n) of an int
RECURSIVE NatToStr(_)
NatToStr(n) ==
    IF n < 10 THEN <<ToString(n)>> ELSE NatToStr(n \div 10) \o <<ToString(n % 10)>>
format_int(n) == IF n < 0 THEN <<"-">> \o NatToStr(-n) ELSE NatToStr(n)

\* the keys of a Python dict are compared by value and type: the int 1 and
\* the str '1' are different keys
IntKey(n) == [type |-> "int", int |-> n, str |-> <<>>]
StrKey(s) == [type |-> "str", int |-> 0, str |-> s]

\* a dict: its keys in order of first insertion, and the value at each key
EmptyDict == [keys |-> <<>>, at |-> <<>>]
SetItem(d, key, v) ==
    [keys |-> IF key \in DOMAIN d.at THEN d.keys ELSE Append(d.keys, key),
     at |-> [k \in DOMAIN d.at \cup {key} |-> IF k = key THEN v ELSE d.at[k]]]

\* itertools.product(h_set, D_set) as a list
product(h_set, D_set) ==
    [i \in 1..(Len(h_set) * Len(D_set)) |->
        <<h_set[((i - 1) \div Len(D_set)) + 1], D_set[((i - 1) % Len(D_set)) + 1]>>]

\* the external kernel's normalized Gram matrix, known by what it was computed from
compare_list_normalized(graphs, h, D) == [graphs |-> graphs, h |-> h, D |-> D]

\* join(out_dir, 'K_h_{}_D_{}.gram'.format(h, D))
output_path_without_D(out_dir, h, D) ==
    join(out_dir, <<"K", "_", "h", "_">> \o format_int(h) \o <<".", "g", "r", "a", "m">>)

output_path(out_dir, h, D) ==
    join(out_dir, <<"K", "_", "h", "_">> \o format_int(h) \o <<"_", "D", "_">> \o format_int(D) \o <<".", "g", "r", "a", "m">>)

\* np.save(file, arr) writes to file + '.npy' unless file ends with it already
np_save_name(file) ==
    IF Len(file) >= 4 /\ SubSeq(file, Len(file) - 3, Len(file)) = <<".", "n", "p", "y">>
    THEN file ELSE file \o <<".", "n", "p", "y">>

\* lines 19-23: the first path of graph_paths that is no file, or 0
first_missing(files, graph_paths) ==
    IF \E i \in DOMAIN graph_paths : graph_paths[i] \notin files
    THEN CHOOSE i \in DOMAIN graph_paths :
            /\ graph_paths[i] \notin files
            /\ \A j \in 1..(i - 1) : graph_paths[j] \in files
    ELSE 0

\* lines 27-34: the loop over the product, from pair i on; st holds the dict
\* ret, the kernel calls made and the gram directory
RECURSIVE product_loop(_, _, _, _, _)
product_loop(graphs, h_D_product, out_dir, i, st) ==
    IF i > Len(h_D_product) THEN st
    ELSE The({product_loop(graphs, h_D_product, out_dir, i + 1, st2) : st2 \in {
            LET h == h_D_product[i][1]
                D == h_D_product[i][2]
                K == compare_list_normalized(graphs, h, D)
                path == output_path(out_dir, h, D)
                saved == np_save_name(path)
            IN  [ret |-> SetItem(st.ret, <<IntKey(h), IntKey(D)>>, path \o <<".", "n", "p", "y">>),
                 calls |-> Append(st.calls, <<h, D>>),
                 disk |-> [p \in DOMAIN st.disk \cup {saved} |->
                             IF p = saved THEN K ELSE st.disk[p]]]}})

\* a dump_gram that leaves out the graphs it does not find
dump_gram_skipping(files, disk, graph_paths, h_set, D_set, out_dir) ==
    The({[out |-> Ok(st.ret), calls |-> st.calls, disk |-> st.disk] : st \in {
        product_loop(SelectSeq(graph_paths, LAMBDA p : p \in files), product(h_set, D_set),
                     out_dir, 1, [ret |-> EmptyDict, calls |-> <<>>, disk |-> disk])}})

\* dump_gram on the graph files `files` and the gram directory `disk`: what
\* it returns or raises, the kernel calls it makes, and the gram directory after
dump_gram(files, disk, graph_paths, h_set, D_set, out_dir) ==
    IF first_missing(files, graph_paths) # 0
    THEN [out |-> Raise("ValueError",
                        <<"G", "r", "a", "p", "h", " ">> \o graph_paths[first_missing(files, graph_paths)] \o <<" ", "n", "o", "t", " ", "f", "o", "u", "n", "d", ".">>),
          calls |-> <<>>, disk |-> disk]
    ELSE The({[out |-> Ok(st.ret), calls |-> st.calls, disk |-> st.disk] : st \in {
            product_loop(graph_paths, product(h_set, D_set), out_dir, 1,
                         [ret |-> EmptyDict, calls |-> <<>>, disk |-> disk])}})

(***************************************************************************)
(* model_induction.py: main, the manifest all.txt                          *)
(***************************************************************************)
\* lines 83-84: one line '{},{},{}\n' per item of gram_paths
manifest_line(key, v) ==
    format_int(key[1].int) \o <<",">> \o format_int(key[2].int) \o <<",">> \o v \o <<"\n">>

manifest_text(gram_paths) ==
    Flatten([i \in DOMAIN gram_paths.keys |->
        manifest_line(gram_paths.keys[i], gram_paths.at[gram_paths.keys[i]])])

\* iterating a text file: the lines, each with its line end
RECURSIVE readlines(_)
readlines(text) ==
    IF text = <<>> THEN <<>>
    ELSE LET nl == {i \in DOMAIN text : text[i] = "\n"}
             n == IF nl = {} THEN Len(text) ELSE CHOOSE i \in nl : \A j \in nl : i <= j
         IN  <<SubSeq(text, 1, n)>> \o readlines(SubSeq(text, n + 1, Len(text)))

\* "." of re: any character but the line end
Dot == Word \cup {" ", "\t", "-", ".", "/", ",", "(", ")", "!"}

\* re.match(r"([0-9]+),([0-9]+),(.+)\n", l): the three groups, or none. Each
\* repetition is greedy: it ends at the last position from which the rest of
\* the pattern matches.
line_groups(l) ==
    LET rest3 == Lit(<<"\n">>)
        rest2 == Lit(<<",">>) \o Plus(Dot) \o rest3
        rest1 == Lit(<<",">>) \o Plus(Digit) \o rest2
        e1 == {p \in Ends(Plus(Digit), 1, l, {1}) : Ends(rest1, 1, l, {p}) # {}}
    IN  IF e1 = {} THEN <<>>
        ELSE LET p1 == SetMax(e1)
                 p2 == SetMax({p \in Ends(Plus(Digit), 1, l, {p1 + 1}) : Ends(rest2, 1, l, {p}) # {}})
                 p3 == SetMax({p \in Ends(Plus(Dot), 1, l, {p2 + 1}) : Ends(rest3, 1, l, {p}) # {}})
             IN  <<SubSeq(l, 1, p1 - 1), SubSeq(l, p1 + 1, p2 - 1), SubSeq(l, p2 + 1, p3 - 1)>>

\* lines 90-96: the dict read back from the lines, from line i on
RECURSIVE load_loop(_, _, _)
load_loop(lines, i, gram_paths) ==
    IF i > Len(lines) THEN gram_paths
    ELSE The({load_loop(lines, i + 1, d2) : d2 \in {
            LET m == line_groups(lines[i])
            IN  IF m # <<>> THEN SetItem(gram_paths, <<StrKey(m[1]), StrKey(m[2])>>, m[3])
                ELSE gram_paths}})

load_gram_paths(text) == The({load_loop(lines, 1, EmptyDict) : lines \in {readlines(text)}})

\* lines 70-84: main in dump mode, with valid edge types and the gram
\* directory out_dir in place: the outcome of the run, the kernel calls, the
\* gram directory and the manifest after it. The manifest is opened with
\* mode 'w' once dump_gram has returned.
main_dump(files, disk, man, graph_paths, h_set, D_set, out_dir) ==
    The({[out |-> r.out, calls |-> r.calls, disk |-> r.disk,
          manifest |-> IF r.out.kind = "raise" THEN man
                       ELSE [exists |-> TRUE, text |-> manifest_text(r.out.value)]] :
         r \in {dump_gram(files, disk, graph_paths, h_set, D_set, out_dir)}})

\* lines 87-96: main in experiments mode, up to the dict it reads back
main_experiments(man) ==
    IF ~man.exists THEN Raise("FileNotFoundError", "all.txt")
    ELSE Ok(load_gram_paths(man.text))

(***************************************************************************)
(* Inputs                                                                  *)
(***************************************************************************)
Column(t, v) == [title |-> t, value |-> v]
GoodColumns(status) ==
    <<Column("status", status), Column("cputime", <<"7", ".", "6", "2", "s">>),
      Column("walltime", <<"7", ".", "5", "s">>), Column("memUsage", <<"2", "8", "4", "8">>)>>
SourceFile(name, column) == [attrib |-> [name |-> name], column |-> column]
SourceFileOpt(name, options, column) == [attrib |-> [name |-> name, options |-> options], column |-> column]
Xml(tool, sourcefiles) == [attrib |-> [benchmarkname |-> tool], sourcefile |-> sourcefiles]
NoXml == Xml("", <<>>)

UnreachPrp == <<"C", "H", "E", "C", "K", "(", " ", "i", "n", "i", "t", "(", "m", "a", "i", "n", "(", ")", ")", ",", " ", "L", "T", "L", "(", "G", " ", "!", " ", "c", "a", "l", "l", "(", "_", "_", "V", "E", "R", "I", "F", "I", "E", "R", "_", "e", "r", "r", "o", "r", "(", ")", ")", ")", " ", ")">>
MemSafetyPrp == <<"C", "H", "E", "C", "K", "(", " ", "i", "n", "i", "t", "(", "m", "a", "i", "n", "(", ")", ")", ",", " ", "L", "T", "L", "(", "G", " ", "v", "a", "l", "i", "d", "-", "f", "r", "e", "e", ")", " ", ")">>
TerminationPrp == <<"C", "H", "E", "C", "K", "(", " ", "i", "n", "i", "t", "(", "m", "a", "i", "n", "(", ")", ")", ",", " ", "L", "T", "L", "(", "F", " ", "e", "n", "d", ")", " ", ")">>
OtherPrp == <<"C", "H", "E", "C", "K", "(", " ", "i", "n", "i", "t", "(", "m", "a", "i", "n", "(", ")", ")", ",", " ", "L", "T", "L", "(", "G", " ", "!", " ", "o", "v", "e", "r", "f", "l", "o", "w", ")", " ", ")">>

NoFiles == [p \in {} |-> <<>>]
OneFile(p, c) == [x \in {p} |-> c]
TwoFiles(p1, c1, p2, c2) == [x \in {p1, p2} |-> IF x = p1 THEN c1 ELSE c2]

GoodTask == <<"d", "/", "a", "_", "t", "r", "u", "e", "-", "u", "n", "r", "e", "a", "c", "h", "-", "c", "a", "l", "l", ".", "c">>
GoodWorld == OneFile(<<"d", "/", "A", "L", "L", ".", "p", "r", "p">>, UnreachPrp)

StatusFragments == {<<"t", "r", "u", "e">>, <<"f", "a", "l", "s", "e">>, <<"t", "r", "u">>, <<"e">>, <<"O", "U", "T", " ", "O", "F", " ", "M", "E", "M", "O", "R", "Y", " ", "(">>, <<")">>, <<"T", "I", "M", "E", "O", "U", "T">>}
StatusStrings == Texts(StatusFragments, MaxStatusFrags)

PathFragments == {<<"d", "/">>, <<"a">>, <<"_", "t", "r", "u", "e", "-">>, <<"_", "f", "a", "l", "s", "e", "-">>, <<"x">>, <<".", "c">>, <<".", "i">>}
PathStrings == Texts(PathFragments, MaxPathFrags)

PrpFragments == {<<"C", "H", "E", "C", "K", "(", " ", "i", "n", "i", "t", "(", "m", "a", "i", "n", "(", ")", ")", ",", " ", "L", "T", "L", "(">>, <<"G", " ", "!", " ", "c", "a", "l", "l", "(", "e", "(", ")", ")">>, <<"G", " ", "v", "a", "l", "i", "d", "-", "f", "r", "e", "e">>,
                 <<"F", " ", "e", "n", "d">>, <<")", " ", ")">>, <<"G">>}
PrpContents == Texts(PrpFragments, MaxPrpFrags)
SmallContents == {UnreachPrp, MemSafetyPrp, TerminationPrp, OtherPrp}

\* tasks with the two places a property file of theirs can be at
PrpTasks ==
    {[task |-> <<"d", "/", "a", "_", "t", "r", "u", "e", "-", "x", ".", "c">>, own |-> <<"d", "/", "a", "_", "t", "r", "u", "e", "-", "x", ".", "p", "r", "p">>, all |-> <<"d", "/", "A", "L", "L", ".", "p", "r", "p">>],
     [task |-> <<"b", "_", "f", "a", "l", "s", "e", "-", "y", ".", "i">>, own |-> <<"b", "_", "f", "a", "l", "s", "e", "-", "y", ".", "p", "r", "p">>, all |-> <<"A", "L", "L", ".", "p", "r", "p">>],
     [task |-> <<"e", ".", "v", "/", "c", "_", "t", "r", "u", "e", "-", "z">>, own |-> <<"e", ".", "v", "/", "c", "_", "t", "r", "u", "e", "-", "z", ".", "p", "r", "p">>, all |-> <<"e", ".", "v", "/", "A", "L", "L", ".", "p", "r", "p">>]}
Elsewhere == <<"z", "/", "A", "L", "L", ".", "p", "r", "p">>

PrpWorlds(t) ==
    {NoFiles}
        \cup {OneFile(t.own, c) : c \in PrpContents}
        \cup {OneFile(t.all, c) : c \in PrpContents}
        \cup {OneFile(Elsewhere, c) : c \in SmallContents}
        \cup {TwoFiles(t.own, c1, t.all, c2) : c1 \in SmallContents, c2 \in SmallContents}

\* the tasks and property files of the category runs
Task1 == <<"d", "/", "a", "_", "t", "r", "u", "e", "-", "u", "n", "r", "e", "a", "c", "h", "-", "c", "a", "l", "l", ".", "c">>
Task2 == <<"d", "/", "b", "_", "f", "a", "l", "s", "e", "-", "v", "a", "l", "i", "d", "-", "f", "r", "e", "e", ".", "i">>
Task3 == <<"t", "/", "c", "_", "t", "r", "u", "e", "-", "t", "e", "r", "m", "i", "n", "a", "t", "i", "o", "n", ".", "c">>
TaskNoVerdict == <<"d", "/", "n", "o", "v", "e", "r", "d", "i", "c", "t", ".", "c">>
TaskNoPrp == <<"n", "/", "e", "_", "t", "r", "u", "e", "-", "x", ".", "c">>
TaskOddPrp == <<"u", "/", "f", "_", "f", "a", "l", "s", "e", "-", "x", ".", "c">>
CatWorld ==
    [p \in {<<"d", "/", "A", "L", "L", ".", "p", "r", "p">>, <<"d", "/", "b", "_", "f", "a", "l", "s", "e", "-", "v", "a", "l", "i", "d", "-", "f", "r", "e", "e", ".", "p", "r", "p">>, <<"t", "/", "A", "L", "L", ".", "p", "r", "p">>, <<"u", "/", "A", "L", "L", ".", "p", "r", "p">>} |->
        IF p = <<"d", "/", "A", "L", "L", ".", "p", "r", "p">> THEN UnreachPrp
        ELSE IF p = <<"d", "/", "b", "_", "f", "a", "l", "s", "e", "-", "v", "a", "l", "i", "d", "-", "f", "r", "e", "e", ".", "p", "r", "p">> THEN MemSafetyPrp
        ELSE IF p = <<"t", "/", "A", "L", "L", ".", "p", "r", "p">> THEN TerminationPrp
        ELSE OtherPrp]

Categories == {<<"m", "i", "x", "e", "d", "-", "e", "x", "a", "m", "p", "l", "e", "s">>, <<"a", "r", "r", "a", "y", "s">>}

\* the result files a directory can hold
FileUniverse ==
    <<[name |-> <<"c", "b", "m", "c", ".", "1", "4", "-", "1", "2", "-", "0", "4", "_", "1", "2", "4", "1", ".", "r", "e", "s", "u", "l", "t", "s", ".", "s", "v", "-", "c", "o", "m", "p", "1", "5", ".", "m", "i", "x", "e", "d", "-", "e", "x", "a", "m", "p", "l", "e", "s", ".", "x", "m", "l">>,
       xml |-> Xml("CBMC", <<SourceFileOpt(Task1, <<"-", "-", "3", "2">>, GoodColumns(<<"t", "r", "u", "e">>)),
                             SourceFileOpt(Task2, <<"-", "-", "3", "2">>, GoodColumns(<<"O", "U", "T", " ", "O", "F", " ", "M", "E", "M", "O", "R", "Y">>))>>)],
      [name |-> <<"c", "b", "m", "c", ".", "1", "4", "-", "1", "2", "-", "0", "4", "_", "1", "2", "4", "1", ".", "w", "i", "t", "n", "e", "s", "s", "c", "h", "e", "c", "k", ".", "1", "4", "-", "1", "2", "-", "0", "5", "_", "0", "9", "3", "0", ".", "r", "e", "s", "u", "l", "t", "s", ".", "s", "v", "-", "c", "o", "m", "p", "1", "5", ".", "m", "i", "x", "e", "d", "-", "e", "x", "a", "m", "p", "l", "e", "s", ".", "x", "m", "l">>,
       xml |-> Xml("CBMC", <<SourceFile(Task2, GoodColumns(<<"f", "a", "l", "s", "e", "(", "r", "e", "a", "c", "h", ")">>)),
                             SourceFile(Task3, GoodColumns(<<"t", "r", "u", "e">>))>>)],
      [name |-> <<"c", "p", "a", "c", "h", "e", "c", "k", "e", "r", ".", "1", "4", "-", "1", "2", "-", "0", "4", "_", "1", "3", "0", "0", ".", "r", "e", "s", "u", "l", "t", "s", ".", "s", "v", "-", "c", "o", "m", "p", "1", "5", ".", "m", "i", "x", "e", "d", "-", "e", "x", "a", "m", "p", "l", "e", "s", ".", "x", "m", "l">>,
       xml |-> Xml("CPAchecker", <<SourceFile(Task1, GoodColumns(<<"t", "r", "u", "e">>)),
                                   SourceFile(Task3, GoodColumns(<<"T", "I", "M", "E", "O", "U", "T">>))>>)],
      [name |-> <<"e", "s", "b", "m", "c", ".", "1", "4", "-", "1", "2", "-", "0", "4", "_", "1", "3", "0", "0", ".", "r", "e", "s", "u", "l", "t", "s", ".", "s", "v", "-", "c", "o", "m", "p", "1", "5", ".", "m", "i", "x", "e", "d", "-", "e", "x", "a", "m", "p", "l", "e", "s", ".", "x", "m", "l">>,
       xml |-> Xml("ESBMC", <<SourceFile(Task1, GoodColumns(<<"t", "r", "u", "e">>)),
                              SourceFile(TaskNoVerdict, GoodColumns(<<"t", "r", "u", "e">>))>>)],
      [name |-> <<"s", "m", "a", "c", "k", ".", "1", "4", "-", "1", "2", "-", "0", "4", "_", "1", "3", "0", "0", ".", "r", "e", "s", "u", "l", "t", "s", ".", "s", "v", "-", "c", "o", "m", "p", "1", "5", ".", "m", "i", "x", "e", "d", "-", "e", "x", "a", "m", "p", "l", "e", "s", ".", "x", "m", "l">>,
       xml |-> Xml("SMACK", <<SourceFile(TaskNoPrp, GoodColumns(<<"t", "r", "u", "e">>)),
                              SourceFile(Task2, GoodColumns(<<"f", "a", "l", "s", "e">>))>>)],
      [name |-> <<"u", "l", "t", "i", "m", "a", "t", "e", ".", "1", "4", "-", "1", "2", "-", "0", "4", "_", "1", "3", "0", "0", ".", "r", "e", "s", "u", "l", "t", "s", ".", "s", "v", "-", "c", "o", "m", "p", "1", "5", ".", "a", "r", "r", "a", "y", "s", ".", "x", "m", "l">>,
       xml |-> Xml("Ultimate", <<SourceFile(Task3, GoodColumns(<<"t", "r", "u", "e">>)),
                                 SourceFile(TaskOddPrp, GoodColumns(<<"f", "a", "l", "s", "e">>))>>)],
      [name |-> <<"c", "b", "m", "c", ".", "1", "4", "-", "1", "2", "-", "0", "4", "_", "1", "2", "4", "1", ".", "r", "e", "s", "u", "l", "t", "s", ".", "s", "v", "-", "c", "o", "m", "p", "1", "5", ".", "a", "r", "r", "a", "y", "s", ".", "x", "m", "l">>,
       xml |-> Xml("CBMC", <<SourceFile(Task3, GoodColumns(<<"u", "n", "k", "n", "o", "w", "n">>))>>)],
      [name |-> <<"R", "E", "A", "D", "M", "E", ".", "t", "x", "t">>,
       xml |-> Xml("", <<SourceFile(Task1, <<>>)>>)]>>

\* the directories of at most MaxFiles of these files
Directories ==
    {[f \in {FileUniverse[i].name : i \in I} |->
        (CHOOSE u \in {FileUniverse[i] : i \in I} : u.name = f).xml] :
     I \in {J \in SUBSET DOMAIN FileUniverse : Cardinality(J) <= MaxFiles}}

\* the orders in which the files of a set can be listed
Orders(S) == {o \in [1..Cardinality(S) -> S] : \A i, j \in DOMAIN o : o[i] = o[j] => i = j}

\* the graph files, the data sets that list them, and the hyperparameter grids
GramDir == <<"g">>
GraphPaths == {<<"a", ".", "g", "p">>, <<"b", ".", "g", "p">>}
Datasets == UNION {[1..n -> GraphPaths] : n \in 1..MaxGraphs}
h_values == {1, 2}
D_values == {0, 1}
\* the grids of one value and of two values, equal or not, in either order
Grids(values) == {<<v>> : v \in values} \cup {<<v, w>> : v \in values, w \in values}
\* the --h_set grids: any of these; the --D_set grids: those in ascending order
h_grids == Grids(h_values)
D_grids == {g \in Grids(D_values) : \A i, j \in DOMAIN g : i < j => g[i] < g[j]}

(***************************************************************************)
(* Specifications                                                          *)
(***************************************************************************)
NoManifest == [exists |-> FALSE, text |-> <<>>]
NoRun == [mode |-> "none"]

ExtractIdle == vtask_path = <<>> /\ expected_out = NotCalled /\ pt_out = NotCalled
ParseIdle == xml_in = NoXml /\ parse_out = NotCalled
CatIdle ==
    /\ results_dir = NoFiles
    /\ category = <<>>
    /\ listing = <<>>
    /\ cat_out = NotCalled
GramIdle ==
    /\ graph_files = {}
    /\ dataset = <<>>
    /\ gram_dir = NoFiles
    /\ manifest = NoManifest
    /\ run = NoRun
    /\ kernel_calls = <<>>

\* one call of svcomp_xml_to_dataframe, on the log at hand
Parse ==
    /\ parse_out = NotCalled
    /\ parse_out' = svcomp_xml_to_dataframe(prp_files, xml_in)
    /\ UNCHANGED <<prp_files, xml_in, extractVars, catVars, gramVars>>

\* logs of one task whose status column carries any of the status strings
StatusLogs ==
    {Xml("CBMC", <<SourceFileOpt(GoodTask, <<"-", "-", "3", "2">>, GoodColumns(s))>>) : s \in StatusStrings}

InitStatus ==
    /\ prp_files = GoodWorld
    /\ xml_in \in StatusLogs
    /\ parse_out = NotCalled
    /\ ExtractIdle /\ CatIdle /\ GramIdle

NextStatus == Parse

SpecStatus == InitStatus /\ [][NextStatus]_vars

\* one call of _extract_expected_status
ExtractExpectedStatus ==
    /\ expected_out = NotCalled
    /\ expected_out' = _extract_expected_status(vtask_path)
    /\ UNCHANGED <<prp_files, vtask_path, pt_out, parseVars, catVars, gramVars>>

InitExpected ==
    /\ prp_files = NoFiles
    /\ vtask_path \in PathStrings
    /\ expected_out = NotCalled
    /\ pt_out = NotCalled
    /\ ParseIdle /\ CatIdle /\ GramIdle

NextExpected == ExtractExpectedStatus

SpecExpected == InitExpected /\ [][NextExpected]_vars

\* one call of _extract_property_type
ExtractPropertyType ==
    /\ pt_out = NotCalled
    /\ pt_out' = _extract_property_type(prp_files, vtask_path)
    /\ UNCHANGED <<prp_files, vtask_path, expected_out, parseVars, catVars, gramVars>>

InitProperty ==
    /\ \E t \in PrpTasks :
        /\ vtask_path = t.task
        /\ prp_files \in PrpWorlds(t)
    /\ expected_out = NotCalled
    /\ pt_out = NotCalled
    /\ ParseIdle /\ CatIdle /\ GramIdle

NextProperty == ExtractPropertyType

SpecProperty == InitProperty /\ [][NextProperty]_vars

\* The category runs are calls from separate interpreter sessions: what a
\* session returned is gone when the next one starts.

\* svcomp_xml_to_dataframe on one file of the directory
ParseFile ==
    \E file \in DOMAIN results_dir :
        /\ xml_in' = results_dir[file]
        /\ parse_out' = svcomp_xml_to_dataframe(prp_files, results_dir[file])
        /\ listing' = <<>>
        /\ cat_out' = NotCalled
        /\ UNCHANGED <<prp_files, results_dir, category, extractVars, gramVars>>

\* read_category on the directory, which os.listdir lists in any order
ReadCategory ==
    \E files \in Orders(DOMAIN results_dir) :
        /\ listing' = files
        /\ cat_out' = read_category(prp_files, results_dir, files, category)
        /\ xml_in' = NoXml
        /\ parse_out' = NotCalled
        /\ UNCHANGED <<prp_files, results_dir, category, extractVars, gramVars>>

InitCategory ==
    /\ prp_files = CatWorld
    /\ results_dir \in Directories
    /\ category \in Categories
    /\ listing = <<>>
    /\ cat_out = NotCalled
    /\ ExtractIdle /\ ParseIdle /\ GramIdle

NextCategory == ParseFile \/ ReadCategory

SpecCategory == InitCategory /\ [][NextCategory]_vars

\* a run of main that dumps the Gram matrices of the data set
MainDump ==
    \E h_set \in h_grids, D_set \in D_grids :
        \E r \in {main_dump(graph_files, gram_dir, manifest, dataset, h_set, D_set, GramDir)} :
            /\ run' = [mode |-> "dump", h_set |-> h_set, D_set |-> D_set, out |-> r.out]
            /\ kernel_calls' = r.calls
            /\ gram_dir' = r.disk
            /\ manifest' = r.manifest
            /\ UNCHANGED <<graph_files, dataset, prp_files, extractVars, parseVars, catVars>>

\* a run of main that reads the manifest back for the experiments
MainExperiments ==
    /\ run' = [mode |-> "experiments", out |-> main_experiments(manifest)]
    /\ kernel_calls' = <<>>
    /\ UNCHANGED <<graph_files, dataset, gram_dir, manifest, prp_files, extractVars, parseVars, catVars>>

\* a graph file is removed from the disk between two runs
DeleteGraph ==
    \E g \in graph_files :
        /\ graph_files' = graph_files \ {g}
        /\ UNCHANGED <<dataset, gram_dir, manifest, run, kernel_calls, prp_files, extractVars, parseVars, catVars>>

InitGram ==
    /\ graph_files = GraphPaths
    /\ dataset \in Datasets
    /\ gram_dir = NoFiles
    /\ manifest = NoManifest
    /\ run = NoRun
    /\ kernel_calls = <<>>
    /\ prp_files = NoFiles
    /\ ExtractIdle /\ ParseIdle /\ CatIdle

NextGram == MainDump \/ MainExperiments \/ DeleteGraph

SpecGram == InitGram /\ [][NextGram]_vars

(***************************************************************************)
(* Claims                                                                  *)
(***************************************************************************)
\* t occurs in s as a substring
HasSub(s, t) == \E i \in 1..(Len(s) - Len(t) + 1) : SubSeq(s, i, i + Len(t) - 1) = t

\* the raw status string of the last sourcefile element of the log named label
RawStatus(root, label) ==
    LET k == SetMax({i \in DOMAIN root.sourcefile : root.sourcefile[i].attrib.name = label})
    IN  _columns_to_dict(root.sourcefile[k].column).value["status"]

\* C1: the verdict stored for a raw status string s is true if s contains
\* "true", otherwise false if s contains "false", otherwise unknown (so a
\* string with both resolves to true), and status_msg is s unchanged.
C1_StatusVerdict ==
    parse_out.kind = "ok" =>
        \A label \in DOMAIN parse_out.df.row :
            LET s == RawStatus(xml_in, label)
                row == parse_out.df.row[label]
            IN  /\ row.status_msg = s
                /\ row.status = IF HasSub(s, <<"t", "r", "u", "e">>) THEN Status.true
                                ELSE IF HasSub(s, <<"f", "a", "l", "s", "e">>) THEN Status.false
                                ELSE Status.unknown

C1_Witness ==
    /\ parse_out.kind = "ok"
    /\ \E label \in DOMAIN parse_out.df.row :
        /\ parse_out.df.row[label].status_msg = <<"O", "U", "T", " ", "O", "F", " ", "M", "E", "M", "O", "R", "Y", " ", "(", "f", "a", "l", "s", "e", "t", "r", "u", "e">>
        /\ parse_out.df.row[label].status = Status.true

\* the base file name b follows the naming convention with token tok ending
\* the prefix at position i: a non-empty prefix, "_", the token, "-", a
\* non-empty suffix, ".", and "i" or "c"
Convention(b, tok, i) ==
    /\ i >= 1
    /\ \A k \in 1..i : b[k] \in Word \cup {"-", "."}
    /\ \E j \in (i + Len(tok) + 3)..(Len(b) - 2) :
        /\ SubSeq(b, i + 1, i + Len(tok) + 2) = <<"_">> \o tok \o <<"-">>
        /\ \A k \in (i + Len(tok) + 3)..j : b[k] \in Word \cup {"-"}
        /\ b[j + 1] = "."
        /\ b[j + 2] \in {"i", "c"}

BaseName(path) ==
    IF \E i \in 1..Len(path) : path[i] = "/"
    THEN LET i == CHOOSE i \in 1..Len(path) : path[i] = "/" /\ \A k \in (i + 1)..Len(path) : path[k] # "/"
         IN  [k \in 1..(Len(path) - i) |-> path[i + k]]
    ELSE path

Follows(b, tok) == \E i \in 1..Len(b) : Convention(b, tok, i)

PrpFound ==
    LET t == CHOOSE t \in PrpTasks : t.task = vtask_path
    IN  IF t.own \in DOMAIN prp_files THEN <<t.own>>
        ELSE IF t.all \in DOMAIN prp_files THEN <<t.all>>
        ELSE <<>>

Unclassifiable(content) ==
    /\ ~re_search(unreachability_pattern, content)
    /\ ~re_search(memory_safety_pattern, content)
    /\ ~re_search(termination_pattern, content)

Extractable(name) ==
    /\ _extract_expected_status(name).kind = "ok"
    /\ _extract_property_type(prp_files, name).kind = "ok"

Names(root) == {root.sourcefile[i].attrib.name : i \in DOMAIN root.sourcefile}

Fields == {"options", "status", "status_msg", "cputime", "walltime", "mem_usage",
           "expected_status", "property_type"}

\* every field of the row holds a value of its kind
Populated(row) ==
    /\ DOMAIN row = Fields
    /\ row.options \in Seq(Word \cup {"-"})
    /\ row.status \in {Status.true, Status.false, Status.unknown}
    /\ row.status_msg # <<>>
    /\ row.cputime.int \in Nat
    /\ row.walltime.int \in Nat
    /\ row.mem_usage \in Nat
    /\ row.expected_status \in {Status.true, Status.false}
    /\ row.property_type \in {PropertyType.unreachability, PropertyType.memory_safety,
                              PropertyType.termination}

Matching == {file \in DOMAIN results_dir : pattern_match(category, file)}

\* C4: the parser returns a table only if both derivations succeeded for
\* every entry of the log, and then the table has a fully populated row for
\* every entry; one entry whose expected status or property type cannot be
\* extracted makes the parse of its file and the aggregation of the category
\* fail, and no table is returned.
C4_NoPartialSuccess ==
    /\ parse_out.kind = "ok" =>
        /\ \A name \in Names(xml_in) : Extractable(name)
        /\ DOMAIN parse_out.df.row = Names(xml_in)
        /\ \A label \in DOMAIN parse_out.df.row : Populated(parse_out.df.row[label])
    /\ (parse_out.kind # "none" /\ \E name \in Names(xml_in) : ~Extractable(name)) =>
        parse_out.kind = "raise"
    /\ (cat_out.kind # "none"
            /\ \E file \in Matching : \E name \in Names(results_dir[file]) : ~Extractable(name)) =>
        cat_out.kind = "raise"
    /\ cat_out.kind = "ok" =>
        \A key \in DOMAIN cat_out.value.column : \A label \in cat_out.value.index :
            LET cell == cat_out.value.column[key][label]
            IN  cell = NaN \/ Populated(cell)

C4_Witness ==
    /\ Len(listing) = 2
    /\ \E i \in DOMAIN listing :
        /\ pattern_match(category, listing[i])
        /\ \A name \in Names(results_dir[listing[i]]) : Extractable(name)
    /\ cat_out.kind = "raise"
    /\ cat_out.exc \in {MissingExpectedStatusException, MissingPropertyTypeException}

\* C5, as claimed: when the matching files of the directory parse, the rows
\* of the table read_category returns are the union of their task paths,
\* whatever other files the directory holds.
C5_RowsAreUnion ==
    (/\ cat_out.kind # "none"
     /\ Matching # {}
     /\ \A file \in Matching : \A name \in Names(results_dir[file]) : Extractable(name)) =>
        /\ cat_out.kind = "ok"
        /\ cat_out.value.index = UNION {Names(results_dir[file]) : file \in Matching}

\* C6, as claimed: two runs of read_category on the same directory return
\* the same table, whatever the orders in which the files were listed.
C6_OrderIndependent ==
    [][(cat_out.kind = "ok" /\ cat_out'.kind = "ok") => cat_out' = cat_out]_vars

\* the decimal numeral of a number below 100
Numerals == <<"0", "1", "2", "3", "4", "5", "6", "7", "8", "9">>
Numeral(n) ==
    IF n < 10 THEN <<Numerals[n + 1]>> ELSE <<Numerals[(n \div 10) + 1], Numerals[(n % 10) + 1]>>

\* where the artifact of the pair (h, D) is to be, and its manifest line
ArtifactPath(h, D) ==
    GramDir \o <<"/", "K", "_", "h", "_">> \o Numeral(h) \o <<"_", "D", "_">> \o Numeral(D) \o <<".", "g", "r", "a", "m", ".", "n", "p", "y">>
ManifestLine(h, D) ==
    Numeral(h) \o <<",">> \o Numeral(D) \o <<",">> \o ArtifactPath(h, D) \o <<"\n">>

Elements(seq) == {seq[i] : i \in DOMAIN seq}

\* the step is a run of main in dump mode that returned
DumpReturns ==
    /\ run'.mode = "dump"
    /\ run'.out.kind = "ok"
    /\ <<run, kernel_calls, gram_dir, manifest>>' # <<run, kernel_calls, gram_dir, manifest>>

\* C7: a dump run over h_set and D_set writes, for each distinct pair (h, D)
\* of the product, one artifact at the path that (h, D) and the gram directory
\* determine, and no other file; it returns a mapping whose keys are those
\* pairs; and it writes a manifest of one line per distinct pair, no two
\* lines with the same pair.
C7_OneArtifactPerPair ==
    [][DumpReturns =>
        LET pairs == Elements(run'.h_set) \X Elements(run'.D_set)
            ret == run'.out.value.at
            lines == readlines(manifest'.text)
        IN  /\ DOMAIN ret = {<<IntKey(p[1]), IntKey(p[2])>> : p \in pairs}
            /\ \A p \in pairs :
                /\ ret[<<IntKey(p[1]), IntKey(p[2])>>] = ArtifactPath(p[1], p[2])
                /\ gram_dir'[ArtifactPath(p[1], p[2])] = compare_list_normalized(dataset, p[1], p[2])
            /\ DOMAIN gram_dir' = DOMAIN gram_dir \cup {ArtifactPath(p[1], p[2]) : p \in pairs}
            /\ \A path \in DOMAIN gram_dir \ {ArtifactPath(p[1], p[2]) : p \in pairs} :
                gram_dir'[path] = gram_dir[path]
            /\ Cardinality({ArtifactPath(p[1], p[2]) : p \in pairs}) = Cardinality(pairs)
            /\ manifest'.exists
            /\ Len(lines) = Cardinality(pairs)
            /\ Elements(lines) = {ManifestLine(p[1], p[2]) : p \in pairs}]_vars

C7_Witness ==
    /\ run.mode = "dump"
    /\ run.out.kind = "ok"
    /\ run.h_set = <<1, 2>>
    /\ run.D_set = <<0, 1>>
    /\ Cardinality(DOMAIN gram_dir) = 4
    /\ Len(readlines(manifest.text)) = 4

\* C8, as claimed: the mapping an experiments run reads back from the
\* manifest is the mapping the dump run that wrote the manifest returned.
C8_ReloadIsReturned ==
    [][(run.mode = "dump" /\ run.out.kind = "ok" /\ run'.mode = "experiments") =>
        /\ run'.out.kind = "ok"
        /\ run'.out.value.at = run.out.value.at]_vars

\* the pairs of a key and its artifact path that the manifest records
Recorded(man) ==
    IF man.exists
    THEN LET lines == readlines(man.text)
         IN  {line_groups(lines[i]) : i \in DOMAIN lines} \ {<<>>}
    ELSE {}

\* C9, as claimed: what the manifest records stays recorded, whatever runs follow.
C9_ManifestAppendOnly ==
    [][Recorded(manifest) \subseteq Recorded(manifest')]_vars

\* the step is a run of main in dump mode
DumpRuns ==
    /\ run'.mode = "dump"
    /\ <<run, kernel_calls, gram_dir, manifest>>' # <<run, kernel_calls, gram_dir, manifest>>

\* C10: a dump run on a data set that lists a path that is no file fails
\* with the error that names the first such path, without one kernel call
\* and with the gram directory and the manifest as they were.
C10_FailFast ==
    [][(DumpRuns /\ \E i \in DOMAIN dataset : dataset[i] \notin graph_files) =>
        /\ run'.out.kind = "raise"
        /\ run'.out.exc = "ValueError"
        /\ \E i \in DOMAIN dataset :
            /\ dataset[i] \notin graph_files
            /\ \A j \in 1..(i - 1) : dataset[j] \in graph_files
            /\ run'.out.msg = <<"G", "r", "a", "p", "h", " ">> \o dataset[i] \o <<" ", "n", "o", "t", " ", "f", "o", "u", "n", "d", ".">>
        /\ kernel_calls' = <<>>
        /\ gram_dir' = gram_dir
        /\ manifest' = manifest]_vars

C10_Witness ==
    /\ run.mode = "dump"
    /\ run.out.kind = "raise"
    /\ Len(dataset) = 2
    /\ dataset[1] \in graph_files
    /\ dataset[2] \notin graph_files
    /\ manifest.exists
    /\ kernel_calls = <<>>
====
